---- MODULE Spec2Model ----
(***************************************************************************)
(* The review-notification (PTAL) pipeline of artemis: the GitHub webhook *)
(* routes, the forked event-processing task, and the Reconciler            *)
(* (handlePullRequestChange) that edits the tracked Discord messages.      *)
(***************************************************************************)
EXTENDS Integers, Sequences, FiniteSets, TLC

VARIABLES
    last,       \* the webhook request most recently answered, with its response
    tasks,      \* the fibers forked by the routes (Effect.forkScoped)
    ptalTable,  \* rows of db.schema.ptalTable, in rowid order
    upstream,   \* GitHub: current PR/review state of each pull request
    messages,   \* Discord: current embed of each tracked message
    lastFetch,  \* history: the PR/review state most recently fetched for a message
    editLog,    \* history: the editMessage calls issued, in order
    crowdinEmbed, \* rows of db.schema.crowdinEmbed: the channel registrations
    runs,       \* the runs of the crowdin.create handler of the event-bus listener
    sent,       \* Discord: the messages created by createMessage, in order
    clock,      \* time, in seconds
    botGuilds,  \* Discord: the guilds the bot belongs to
    guildsTable, \* ids in db.schema.guilds
    subs,       \* the gateway subscriptions (handleDispatch under Effect.retry)
    sweeps      \* the fibers forked by the READY handler to run updatePTALs

creatorVars == <<crowdinEmbed, runs, sent>>

gatewayVars == <<clock, botGuilds, guildsTable, subs, sweeps>>

vars == <<last, tasks, ptalTable, upstream, messages, lastFetch, editLog, creatorVars,
          gatewayVars>>

\* ------------------------------------------------------------------ bounds
MaxBodyLen == 2
MaxTasks == 2
MaxPtal == 2
MaxVersion == 1
MaxRegs == 2
MaxRuns == 2
MaxSweeps == 2
MaxFails == 2
MaxClock == 2

\* --------------------------------------------------------- request inputs
\* WEBHOOK_SECRET, and a secret the sender does not share with the bot
WebhookSecret == "s"

Secrets == {WebhookSecret, "evil"}

\* JSON values a body can carry.  Each is one webhook payload.
PayloadIds == {"prA-opened", "prA-submitted", "prB-opened",
               "dispatch-ptal", "dispatch-other", "junk"}

PayloadOf(p) ==
    CASE p = "prA-opened"     -> [kind |-> "pr", owner |-> "acme", repo |-> "widgets", number |-> 42, action |-> "opened"]
      [] p = "prA-submitted"  -> [kind |-> "pr", owner |-> "acme", repo |-> "widgets", number |-> 42, action |-> "submitted"]
      [] p = "prB-opened"     -> [kind |-> "pr", owner |-> "acme", repo |-> "widgets", number |-> 7, action |-> "opened"]
      [] p = "dispatch-ptal"  -> [kind |-> "dispatch", owner |-> "acme", repo |-> "widgets", number |-> 0, action |-> "crowdin-ptal"]
      [] p = "dispatch-other" -> [kind |-> "dispatch", owner |-> "acme", repo |-> "widgets", number |-> 0, action |-> "none"]
      [] OTHER                -> [kind |-> "junk", owner |-> "", repo |-> "", number |-> 0, action |-> ""]

\* Bytes of a raw body, at the granularity JSON cares about: insignificant
\* whitespace, a byte that is not JSON, and a JSON value written either
\* literally or with an escape sequence (the same value, other bytes).
WS == <<"ws", "">>

Bad == <<"x", "">>

Lit(p) == <<"lit", p>>

Esc(p) == <<"esc", p>>

Tokens(ps) == {WS, Bad} \cup {Lit(p) : p \in ps} \cup {Esc(p) : p \in ps}

SeqsUpTo(S, n) == UNION {[1..k -> S] : k \in 0..n}

Bodies(ps) == SeqsUpTo(Tokens(ps), MaxBodyLen)

\* x-github-event header values; "" is a missing header
NoEvent == ""

PREvents == {"pull_request", "pull_request_review", "pull_request_review_comment"}

\* ------------------------------------------------------------ JSON, HMAC
\* JSON.parse: one value, with whitespace around it; anything else throws.
JsonParse(b) ==
    LET core == SelectSeq(b, LAMBDA t : t # WS)
    IN  IF Len(core) = 1 /\ core[1][1] \in {"lit", "esc"}
        THEN [ok |-> TRUE, value |-> core[1][2]]
        ELSE [ok |-> FALSE, value |-> ""]

\* JSON.stringify: the compact, literal spelling of the value.
JsonStringify(v) == <<Lit(v)>>

\* 'sha256=' + hex(HMAC-SHA-256(body, secret)); an ideal MAC, injective in both
Sign(b, s) == <<"sha256", b, s>>

\* x-hub-signature-256 header values; NoSig is a missing (or empty) header
NoSig == <<"none", <<>>, "">>

\* a signature header with one character changed
FlipSig(sig) == <<"sha256~", sig[2], sig[3]>>


\* ------------------------------------------------------------ the store
PtalRow(c, m, o, r, n, d) ==
    [channel |-> c, message |-> m, owner |-> o, repository |-> r, pr |-> n,
     guildId |-> "G1", description |-> d]

\* the rows a ptalTable can hold in this model
PtalUniverse ==
    { PtalRow("C1", "M1", "acme", "widgets", 42, "Crowdin Sync Request"),
      PtalRow("C2", "M2", "acme", "widgets", 42, "PTAL"),
      PtalRow("C3", "M3", "acme", "widgets", 7, "PTAL") }

PtalTables ==
    {t \in SeqsUpTo(PtalUniverse, MaxPtal) : \A i, j \in 1..Len(t) : i # j => t[i] # t[j]}

MsgOf(r) == <<r.channel, r.message>>

KeyOf(r) == <<r.owner, r.repository, r.pr>>

\* the ids Discord gives to created messages, in order of creation
CreatedIds == <<"N1", "N2", "N3", "N4", "N5", "N6">>

MessageIds ==
    {MsgOf(r) : r \in PtalUniverse}
        \cup ({"C1", "C2", "C3"} \X {CreatedIds[i] : i \in 1..Len(CreatedIds)})

PRKeys == {KeyOf(r) : r \in PtalUniverse}

NoEmbed == [description |-> "", state |-> -1]

\* crowdinEmbed rows
Registration(o, r, c, g) == [owner |-> o, repo |-> r, channelId |-> c, guildId |-> g]

RegistrationUniverse ==
    { Registration("acme", "widgets", "C1", "G1"),
      Registration("acme", "widgets", "C2", "G2"),
      Registration("acme", "gadgets", "C3", "G1") }

RegistrationTables ==
    {t \in SeqsUpTo(RegistrationUniverse, MaxRegs) : \A i, j \in 1..Len(t) : i # j => t[i] # t[j]}

\* the select on crowdinEmbed: the rows of one repository
RegistrationsFor(table, owner, repo) ==
    SelectSeq(table, LAMBDA e : e.owner = owner /\ e.repo = repo)

\* ------------------------------------------------------------ the tasks
TaskIds == 1..MaxTasks

FreeTask ==
    [status |-> "free", pc |-> "none", handler |-> "", event |-> "", payload |-> "",
     data |-> <<>>, idx |-> 0, fetched |-> -1, scopeOpen |-> FALSE, errors |-> <<>>,
     log |-> <<>>]

\* a fiber forked into the request's scope, about to run `handler(event, body)`
NewTask(handler, ev, p) ==
    [FreeTask EXCEPT !.status = "running", !.pc = "start", !.handler = handler,
                     !.event = ev, !.payload = p, !.scopeOpen = TRUE]

NoReq ==
    [route |-> "", body |-> <<>>, sig |-> NoSig, event |-> NoEvent, status |-> 0,
     steps |-> <<>>, task |-> 0]

\* --------------------------------------------------- signature verification
\* github.webhooks.verify(payload, signature) and verifySignature(body, signature):
\* the digest of the payload under WEBHOOK_SECRET equals the header
Verify(payload, sig) == sig = Sign(payload, WebhookSecret)

HeadersMissing_NoEventCheck(sig, ev) == sig = NoSig

\* `if (!signature || !event)`
HeadersMissing(sig, ev) == sig = NoSig \/ ev = NoEvent

\* the string handed to github.webhooks.verify: JSON.stringify(body) of the parsed body
VerifiedPayload(body) == JsonStringify(JsonParse(body).value)

Outcome(status, steps, fork, handler, payload) ==
    [status |-> status, steps |-> steps, fork |-> fork, handler |-> handler, payload |-> payload]

\* services/http.ts, the HttpLayerRouter route.  An unparseable body fails req.json
\* with a RequestError, which the platform answers 400; a rejected verify promise is
\* an UnknownException nobody handles, which the platform answers 500.
GithubWebhookRouteOutcome(body, sig, ev, vthrow) ==
    IF HeadersMissing(sig, ev) THEN Outcome(400, <<"headers">>, FALSE, "", "")
    ELSE IF ~JsonParse(body).ok THEN Outcome(400, <<"headers", "json">>, FALSE, "", "")
    ELSE IF vthrow THEN Outcome(500, <<"headers", "json", "verify-throws">>, FALSE, "", "")
    ELSE IF ~Verify(VerifiedPayload(body), sig)
         THEN Outcome(401, <<"headers", "json", "verify">>, FALSE, "", "")
    ELSE Outcome(202, <<"headers", "json", "verify", "fork">>, TRUE,
                 "handleGitHubWebhookEvent", JsonParse(body).value)

\* services/http.ts, the earlier HttpRouter.post route: the body is parsed first.
RouterPostOutcome(body, sig, ev, vthrow) ==
    IF ~JsonParse(body).ok THEN Outcome(400, <<"json">>, FALSE, "", "")
    ELSE IF HeadersMissing(sig, ev) THEN Outcome(400, <<"json", "headers">>, FALSE, "", "")
    ELSE IF vthrow THEN Outcome(500, <<"json", "headers", "verify-throws">>, FALSE, "", "")
    ELSE IF ~Verify(VerifiedPayload(body), sig)
         THEN Outcome(401, <<"json", "headers", "verify">>, FALSE, "", "")
    ELSE Outcome(202, <<"json", "headers", "verify", "fork">>, TRUE,
                 "handleWebhookEvent", JsonParse(body).value)

\* processWebhook: the schema decode of the two decoded events fails on another shape
ProcessWebhookFails(ev, p) ==
    \/ ev = "pull_request" /\ PayloadOf(p).kind # "pr"
    \/ ev = "repository_dispatch" /\ PayloadOf(p).kind # "dispatch"

\* github-webhooks/http-handler.ts: JSON.parse runs while the argument of Effect.all
\* is built (a SyntaxError is a defect: 500), then verifySignature on the raw text
\* (either failure message contains "signature": 401), then processWebhook inline.
githubWebhookRouteHandlerOutcome(body, sig, ev) ==
    IF ~JsonParse(body).ok THEN Outcome(500, <<"text", "json">>, FALSE, "", "")
    ELSE IF sig = NoSig \/ ~Verify(body, sig)
         THEN Outcome(401, <<"text", "json", "verify">>, FALSE, "", "")
    ELSE IF ProcessWebhookFails(ev, JsonParse(body).value)
         THEN Outcome(500, <<"text", "json", "verify", "process">>, FALSE, "", "")
    ELSE Outcome(200, <<"text", "json", "verify", "process">>, FALSE, "", "")

FreeTasks == {t \in TaskIds : tasks[t].status = "free"}

\* answer the request and, when the route forks, start the task in the lowest free slot
Respond(route, body, sig, ev, out) ==
    /\ FreeTasks # {}
    /\ LET t == CHOOSE x \in FreeTasks : \A y \in FreeTasks : x <= y
       IN  /\ last' = [route |-> route, body |-> body, sig |-> sig, event |-> ev,
                       status |-> out.status, steps |-> out.steps,
                       task |-> IF out.fork THEN t ELSE 0]
           /\ tasks' = IF out.fork
                       THEN [tasks EXCEPT ![t] = NewTask(out.handler, ev, out.payload)]
                       ELSE tasks
    /\ UNCHANGED <<ptalTable, upstream, messages, lastFetch, editLog, creatorVars, gatewayVars>>

GithubWebhookRoute(body, sig, ev, vthrow) ==
    Respond("GithubWebhookRoute", body, sig, ev, GithubWebhookRouteOutcome(body, sig, ev, vthrow))

RouterPost(body, sig, ev, vthrow) ==
    Respond("RouterPost", body, sig, ev, RouterPostOutcome(body, sig, ev, vthrow))

githubWebhookRouteHandler(body, sig, ev) ==
    Respond("githubWebhookRouteHandler", body, sig, ev, githubWebhookRouteHandlerOutcome(body, sig, ev))

\* ------------------------------------------------------ the forked task
\* the fiber ends; its locals are gone, the payload and the rows it selected are kept
\* (errors: the positions in data at which editPTALEmbed failed)
Finish(tk, status) ==
    [tk EXCEPT !.status = status, !.pc = "end", !.event = "", !.idx = 0, !.fetched = -1]

PtalMatching_AnyNumber(table, p) ==
    SelectSeq(table, LAMBDA r : r.owner = p.owner /\ r.repository = p.repo)

\* the select of handlePullRequestChange: rows with the event's owner, repository, number
PtalMatching(table, p) ==
    SelectSeq(table, LAMBDA r : r.owner = p.owner /\ r.repository = p.repo /\ r.pr = p.number)

\* handleGitHubWebhookEvent, `if (action !== 'crowdin-ptal') return yield* handleCrowdinSyncPTAL(..)`
DispatchCallsCreator(action) == action # "crowdin-ptal"

\* handleCrowdinSyncPTAL, `if (action !== 'crowdin-ptal') return`
CreatorProceeds(action) == action = "crowdin-ptal"

\* handlePullRequestChange up to its loop: the query, and the early return on no rows
PullRequestChangeStart(tk, p, dbok) ==
    IF ~dbok THEN Finish(tk, "failed")
    ELSE LET data == PtalMatching(ptalTable, p)
         IN  IF Len(data) = 0 THEN Finish([tk EXCEPT !.data = data], "done")
             ELSE [tk EXCEPT !.data = data, !.idx = 1, !.pc = "fetch", !.event = ""]

\* handleCrowdinSyncPTAL up to listMyGuilds: the action test, the select on crowdinEmbed,
\* the warning and return when the repository has no registration
CrowdinSyncPTALStart(tk, action, p, dbok) ==
    IF ~CreatorProceeds(action) THEN Finish(tk, "done")
    ELSE IF ~dbok THEN Finish([tk EXCEPT !.log = Append(@, "select crowdinEmbed")], "failed")
    ELSE LET allowList == RegistrationsFor(crowdinEmbed, p.owner, p.repo)
         IN  IF Len(allowList) = 0
             THEN Finish([tk EXCEPT !.log = @ \o <<"select crowdinEmbed", "warn">>], "done")
             ELSE [tk EXCEPT !.log = Append(@, "select crowdinEmbed"), !.data = allowList,
                             !.pc = "creator"]

\* handleGitHubWebhookEvent, the switch.  A payload without the fields a case reads
\* (`payload.repository.full_name`, `payload.pull_request.title`) is a TypeError that
\* kills the fiber.  The default case logs the event name and reads nothing.
GitHubWebhookEventStart(tk, dbok) ==
    LET p == PayloadOf(tk.payload)
    IN  CASE tk.event = "push" ->
               IF p.kind = "junk" THEN Finish(tk, "died") ELSE Finish(tk, "done")
          [] tk.event \in PREvents ->
               IF p.kind # "pr" THEN Finish(tk, "died") ELSE PullRequestChangeStart(tk, p, dbok)
          [] tk.event = "repository_dispatch" ->
               IF p.kind = "junk" THEN Finish(tk, "died")
               ELSE IF DispatchCallsCreator(IF p.action = "" THEN "none" ELSE p.action)
                    THEN CrowdinSyncPTALStart(tk, IF p.action = "" THEN "none" ELSE p.action, p, dbok)
                    ELSE Finish(tk, "done")
          [] OTHER -> Finish([tk EXCEPT !.log = Append(@, "unhandled")], "done")

\* handleWebhookEvent of the earlier route: it only logs
WebhookEventStart(tk) ==
    IF tk.event = "push" /\ PayloadOf(tk.payload).kind = "junk"
    THEN Finish(tk, "died") ELSE Finish(tk, "done")

TaskStart(t, dbok) ==
    /\ tasks[t].status = "running" /\ tasks[t].pc = "start"
    /\ tasks' = [tasks EXCEPT ![t] =
                    IF tasks[t].handler = "handleGitHubWebhookEvent"
                    THEN GitHubWebhookEventStart(tasks[t], dbok)
                    ELSE WebhookEventStart(tasks[t])]
    /\ UNCHANGED <<last, ptalTable, upstream, messages, lastFetch, editLog, creatorVars,
                   gatewayVars>>

\* editPTALEmbed(entry): the embed rendered from the row and the fetched PR/review state
RenderEmbed(entry, fetched) == [description |-> entry.description, state |-> fetched]

\* `for (const entry of data) { yield* editPTALEmbed(entry); }`: nothing catches the
\* failure of editPTALEmbed, so it ends the loop and fails handlePullRequestChange
FailedEntry(tk) == Finish([tk EXCEPT !.errors = Append(@, tk.idx)], "failed")

FreshState_FromPayload(entry, payload) == IF payload.action = "submitted" THEN MaxVersion ELSE 0

\* the PR/review state editPTALEmbed renders: the one it fetches for the row's pull
\* request, whatever the webhook's payload says
FreshState(entry, payload) == upstream[KeyOf(entry)]

\* editPTALEmbed(entry), first half: fetch the pull request and its reviews
TaskFetch(t, ok) ==
    /\ tasks[t].status = "running" /\ tasks[t].pc = "fetch"
    /\ LET entry == tasks[t].data[tasks[t].idx]
           state == FreshState(entry, PayloadOf(tasks[t].payload))
       IN  IF ok
           THEN /\ tasks' = [tasks EXCEPT ![t].fetched = state, ![t].pc = "edit"]
                /\ lastFetch' = [lastFetch EXCEPT ![MsgOf(entry)] = state]
           ELSE /\ tasks' = [tasks EXCEPT ![t] = FailedEntry(tasks[t])]
                /\ UNCHANGED lastFetch
    /\ UNCHANGED <<last, ptalTable, upstream, messages, editLog, creatorVars, gatewayVars>>

EditEntry_WithAction(entry, payload) == [entry EXCEPT !.description = payload.action]

\* the argument of editPTALEmbed in the loop of handlePullRequestChange: the row alone
EditEntry(entry, payload) == entry

\* editPTALEmbed(entry), second half: edit the message; then the loop goes on
TaskEdit(t, ok) ==
    /\ tasks[t].status = "running" /\ tasks[t].pc = "edit"
    /\ LET tk == tasks[t]
           entry == EditEntry(tk.data[tk.idx], PayloadOf(tk.payload))
           embed == RenderEmbed(entry, tk.fetched)
       IN  IF ok
           THEN /\ messages' = [messages EXCEPT ![MsgOf(entry)] = embed]
                /\ editLog' = Append(editLog, [task |-> t, channel |-> entry.channel,
                                               message |-> entry.message, embed |-> embed])
                /\ tasks' = [tasks EXCEPT ![t] =
                                IF tk.idx = Len(tk.data) THEN Finish(tk, "done")
                                ELSE [tk EXCEPT !.idx = tk.idx + 1, !.pc = "fetch", !.fetched = -1]]
           ELSE /\ tasks' = [tasks EXCEPT ![t] = FailedEntry(tk)]
                /\ UNCHANGED <<messages, editLog>>
    /\ UNCHANGED <<last, ptalTable, upstream, lastFetch, creatorVars, gatewayVars>>

\* Effect.forkScoped: the fiber lives in the request's scope, which the server closes
\* once the response is sent; closing it interrupts a fiber that still runs.
CloseScope(t) ==
    /\ tasks[t].scopeOpen
    /\ tasks' = [tasks EXCEPT ![t] =
                    IF tasks[t].status = "running"
                    THEN [Finish(tasks[t], "interrupted") EXCEPT !.scopeOpen = FALSE]
                    ELSE [tasks[t] EXCEPT !.scopeOpen = FALSE]]
    /\ UNCHANGED <<last, ptalTable, upstream, messages, lastFetch, editLog, creatorVars,
                   gatewayVars>>

\* GitHub: a review is submitted, the pull request changes
UpstreamChange(k) ==
    /\ upstream[k] < MaxVersion
    /\ upstream' = [upstream EXCEPT ![k] = upstream[k] + 1]
    /\ UNCHANGED <<last, tasks, ptalTable, messages, lastFetch, editLog, creatorVars, gatewayVars>>

\* ------------------------------------------- the crowdin.create listener
\* pull_request_url values of a crowdin.create event: a URL with /pull/<number>,
\* a URL without it, a string that is no URL, and no value at all
PullUrl(n) == <<"url", n>>

NaN == -1

UrlWithoutPull == <<"url", NaN>>

NotAUrl == <<"text", NaN>>

NoUrl == <<"absent", NaN>>

\* `new URL(payload.payload.pull_request_url)`: throws a TypeError on anything but a URL
UrlParses(u) == u[1] = "url"

\* `Number.parseInt(pullRequestUrl.pathname.split('/pull/')[1], 10)`
PullNumber(u) == u[2]

RunIds == 1..MaxRuns

FreeRun ==
    [status |-> "free", pc |-> "none", owner |-> "", repo |-> "", url |-> NoUrl,
     pull |-> NaN, refs |-> <<>>, idx |-> 0, msg |-> "", errors |-> <<>>, log |-> <<>>]

FreeRuns == {r \in RunIds : runs[r].status = "free"}

\* eventBus.publish of a crowdin.create event: the handler of crowdinCreateSubscription
\* starts with the event's payload (one event is handled at a time)
Publish(owner, repo, url) ==
    /\ FreeRuns # {}
    /\ \A r \in RunIds : runs[r].status # "running"
    /\ LET r == CHOOSE x \in FreeRuns : \A y \in FreeRuns : x <= y
       IN  runs' = [runs EXCEPT ![r] =
                       [FreeRun EXCEPT !.status = "running", !.pc = "start",
                                       !.owner = owner, !.repo = repo, !.url = url]]
    /\ UNCHANGED <<last, tasks, ptalTable, upstream, messages, lastFetch, editLog,
                   crowdinEmbed, sent, gatewayVars>>

EndRun(run, status) == [run EXCEPT !.status = status, !.pc = "end", !.idx = 0, !.msg = ""]

\* `Effect.catchAllCause((cause) => Effect.logError(..))` at the end of the pipe: the
\* failure is logged and the handler completes
CaughtInRun(run) ==
    EndRun([run EXCEPT !.errors = Append(@, run.idx), !.log = Append(@, "error")], "done")

\* the handler up to the pipe: the PR number is taken from the URL.  `new URL` throwing
\* is outside the pipe, so nothing catches it.
CreatorStart(r) ==
    /\ runs[r].status = "running" /\ runs[r].pc = "start"
    /\ runs' = [runs EXCEPT ![r] =
                   IF ~UrlParses(runs[r].url) THEN EndRun(runs[r], "died")
                   ELSE [runs[r] EXCEPT !.pull = PullNumber(runs[r].url), !.pc = "fetch"]]
    /\ UNCHANGED <<last, tasks, ptalTable, upstream, messages, lastFetch, editLog,
                   crowdinEmbed, sent, gatewayVars>>

\* `Effect.all({crowdinRefs, pr, reviewList})`, in that order: the registrations of the
\* repository, the pull request, its reviews.  The first failure ends the three.
CreatorFetch(r, dbok, prok, revok) ==
    /\ runs[r].status = "running" /\ runs[r].pc = "fetch"
    /\ LET run   == runs[r]
           refs  == RegistrationsFor(crowdinEmbed, run.owner, run.repo)
           prOk  == prok /\ run.pull # NaN
           calls == <<"select crowdinEmbed">>
                      \o (IF dbok THEN <<"pulls.get">> ELSE <<>>)
                      \o (IF dbok /\ prOk THEN <<"pulls.listReviews">> ELSE <<>>)
           run2  == [run EXCEPT !.log = @ \o calls]
       IN  runs' = [runs EXCEPT ![r] =
                       IF ~(dbok /\ prOk /\ revok) THEN CaughtInRun(run2)
                       ELSE IF Len(refs) = 0 THEN EndRun([run2 EXCEPT !.refs = refs], "done")
                       ELSE [run2 EXCEPT !.refs = refs, !.idx = 1, !.pc = "send"]]
    /\ UNCHANGED <<last, tasks, ptalTable, upstream, messages, lastFetch, editLog,
                   crowdinEmbed, sent, gatewayVars>>

\* `rest.createMessage(channelId, newInteraction)` for the registration at idx
CreatorSend(r, ok) ==
    /\ runs[r].status = "running" /\ runs[r].pc = "send"
    /\ Len(sent) < Len(CreatedIds)
    /\ LET run == runs[r]
           id  == CreatedIds[Len(sent) + 1]
       IN  IF ok
           THEN /\ sent' = Append(sent, [run |-> r, channel |-> run.refs[run.idx].channelId, id |-> id])
                /\ runs' = [runs EXCEPT ![r] = [run EXCEPT !.msg = id, !.pc = "insert"]]
           ELSE /\ runs' = [runs EXCEPT ![r] = CaughtInRun(run)]
                /\ UNCHANGED sent
    /\ UNCHANGED <<last, tasks, ptalTable, upstream, messages, lastFetch, editLog, crowdinEmbed,
                   gatewayVars>>

CreatedRow_OtherChannel(run, ref, id) ==
    [channel |-> run.refs[1].channelId, message |-> id, owner |-> run.owner,
     repository |-> run.repo, pr |-> run.pull, guildId |-> ref.guildId,
     description |-> "Crowdin Sync Request"]

\* the row addPTALRecord inserts for a registration and the message created for it
CreatedRow(run, ref, id) ==
    [channel |-> ref.channelId, message |-> id, owner |-> run.owner, repository |-> run.repo,
     pr |-> run.pull, guildId |-> ref.guildId, description |-> "Crowdin Sync Request"]

\* Effect.forEach: on to the next registration, or the end
NextRegistration(run) ==
    IF run.idx = Len(run.refs) THEN EndRun(run, "done")
    ELSE [run EXCEPT !.idx = run.idx + 1, !.msg = "", !.pc = "send"]

\* `.pipe(Effect.tap(makePTALDbTap))`: the insert of the row for the created message
CreatorInsert(r, ok) ==
    /\ runs[r].status = "running" /\ runs[r].pc = "insert"
    /\ LET run == runs[r]
       IN  IF ok
           THEN /\ ptalTable' = Append(ptalTable, CreatedRow(run, run.refs[run.idx], run.msg))
                /\ runs' = [runs EXCEPT ![r] = NextRegistration(run)]
           ELSE /\ runs' = [runs EXCEPT ![r] = CaughtInRun(run)]
                /\ UNCHANGED ptalTable
    /\ UNCHANGED <<last, tasks, upstream, messages, lastFetch, editLog, crowdinEmbed, sent,
                   gatewayVars>>

CreatorStep ==
    \/ \E r \in RunIds : CreatorStart(r)
    \/ \E r \in RunIds, dbok, prok, revok \in BOOLEAN : CreatorFetch(r, dbok, prok, revok)
    \/ \E r \in RunIds, ok \in BOOLEAN : CreatorSend(r, ok)
    \/ \E r \in RunIds, ok \in BOOLEAN : CreatorInsert(r, ok)

\* ------------------------------------------------------------ the gateway
Guilds == {"G1", "G2"}

\* a set of guilds as the list a READY event carries
GuildSeq(S) == SelectSeq(<<"G1", "G2">>, LAMBDA g : g \in S)

SubNames == {"READY", "GUILD_CREATE", "GUILD_DELETE", "MESSAGE_CREATE"}

SweepIds == 1..MaxSweeps

\* Schedule.spaced('1 seconds') (spacedOnceSecond): the delay before a retry
RetryDelay == 1

\* delayByOneSecond: the delay before the scheduled updatePTALs runs
SweepStartDelay == 1

\* effectSleep2Seconds
SleepSeconds == 2

\* An effect, as far as timing goes: the time it sleeps before its outbound call
Sleep(n) == [delay |-> n, call |-> "none"]

RestCall(c) == [delay |-> 0, call |-> c]

effectSleep2Seconds == Sleep(SleepSeconds)

\* `self.pipe(f)` is `f(self)`
Pipe(self, F(_)) == F(self)

\* `effectSleep2Seconds.pipe(() => rest.getChannel(ptal.channel))`: the function ignores
\* the effect it is given, so the result is the call alone
GetChannelEffect == Pipe(effectSleep2Seconds, LAMBDA self : RestCall("getChannel"))

\* `effectSleep2Seconds.pipe(() => editPTALEmbed(ptal))`
EditEmbedEffect == Pipe(effectSleep2Seconds, LAMBDA self : RestCall("editPTALEmbed"))

\* the READY handlers in the sources: the one that forks the sweep, and the earlier one
\* of services/ready.ts
ReadyImpls == {"discord-ready", "ready.ts"}

IdleSub ==
    [state |-> "listening", pc |-> "none", guild |-> "", todo |-> <<>>, snapshot |-> {},
     failedAt |-> -1, waited |-> -1, fails |-> 0, synced |-> FALSE, log |-> <<>>,
     impl |-> "discord-ready"]

FreeSweep ==
    [status |-> "free", pc |-> "none", wake |-> 0, rows |-> <<>>, idx |-> 0, readyAt |-> 0,
     calls |-> <<>>, errors |-> <<>>, summaries |-> 0, gone |-> {}]

FreeSweeps == {s \in SweepIds : sweeps[s].status = "free"}

GatewayIdle ==
    /\ clock = 0
    /\ botGuilds = {}
    /\ guildsTable = {}
    /\ subs = [n \in SubNames |-> IdleSub]
    /\ sweeps = [s \in SweepIds |-> FreeSweep]

\* the handler returns: handleDispatch takes the next event
Handled(sub) ==
    [sub EXCEPT !.state = "listening", !.pc = "none", !.guild = "", !.todo = <<>>,
                !.snapshot = {}]

RetryAgain_Once(fails) == fails < 1

\* Schedule.spaced: it recurs without end
RetryAgain(fails) == TRUE

\* the handler fails: handleDispatch fails with it, and Effect.retry(spacedOnceSecond)
\* runs it again after the schedule's delay, if the schedule goes on
HandlerFails(sub) ==
    IF RetryAgain(sub.fails)
    THEN [Handled(sub) EXCEPT !.state = "retrying", !.failedAt = clock, !.fails = sub.fails + 1]
    ELSE [Handled(sub) EXCEPT !.state = "ended", !.failedAt = clock, !.fails = sub.fails + 1]

\* a failure is possible while the bounds on failures and on time leave room for the retry
RECURSIVE FailsOf(_)

FailsOf(names) ==
    IF names = {} THEN 0
    ELSE LET n == CHOOSE x \in names : TRUE IN subs[n].fails + FailsOf(names \ {n})

MayFail(n, ok) == ok \/ (FailsOf(SubNames) < MaxFails /\ clock + RetryDelay <= MaxClock)

Handling(n, pc) == subs[n].state = "handling" /\ subs[n].pc = pc

\* Effect.retry: the delay is over, handleDispatch subscribes again
SubRestart(n) ==
    /\ subs[n].state = "retrying"
    /\ clock >= subs[n].failedAt + RetryDelay
    /\ subs' = [subs EXCEPT ![n] = [subs[n] EXCEPT !.state = "listening", !.failedAt = -1,
                                                   !.waited = clock - subs[n].failedAt]]
    /\ UNCHANGED <<last, tasks, ptalTable, upstream, messages, lastFetch, editLog, creatorVars,
                   clock, botGuilds, guildsTable, sweeps>>

\* what a failed insert into guilds leaves in the log: the id is the primary key, so an
\* insert of an id the table holds is refused
InsertFailure(g, log) == IF g \in guildsTable THEN <<"duplicate key">> ELSE log

\* ---- READY
GatewayReady ==
    /\ subs["READY"].state = "listening"
    /\ FreeSweeps # {}
    /\ subs' = [subs EXCEPT !["READY"] =
                   [@ EXCEPT !.state = "handling", !.pc = "test", !.todo = GuildSeq(botGuilds),
                             !.log = <<>>]]
    /\ UNCHANGED <<last, tasks, ptalTable, upstream, messages, lastFetch, editLog, creatorVars,
                   clock, botGuilds, guildsTable, sweeps>>

\* the condition guarding the guild sync.  `const dbConnected = yield* dbConnectTest;
\* if (dbConnected)` tests the result of the test; services/ready.ts runs the test,
\* drops its result and has `if (dbConnectTest)`, which tests the effect, an object
DbConnected(impl, dbok) == IF impl = "ready.ts" THEN TRUE ELSE dbok

\* the connectivity test, `SELECT CURRENT_TIMESTAMP`, with its catchAll
ReadyTest(dbok) ==
    /\ Handling("READY", "test")
    /\ subs' = [subs EXCEPT !["READY"] =
                   LET logged == [@ EXCEPT !.log = Append(@, IF dbok THEN "connected"
                                                                   ELSE "not connected")]
                   IN  IF DbConnected(@.impl, dbok) THEN [logged EXCEPT !.pc = "select"]
                       ELSE Handled(logged)]
    /\ UNCHANGED <<last, tasks, ptalTable, upstream, messages, lastFetch, editLog, creatorVars,
                   clock, botGuilds, guildsTable, sweeps>>

\* `select().from(db.schema.guilds)`: the snapshot the loop checks against
ReadySelect(ok) ==
    /\ Handling("READY", "select")
    /\ MayFail("READY", ok)
    /\ subs' = [subs EXCEPT !["READY"] =
                   IF ok THEN [@ EXCEPT !.snapshot = guildsTable, !.pc = "sync",
                                        !.log = Append(@, "select guilds")]
                   ELSE HandlerFails(@)]
    /\ UNCHANGED <<last, tasks, ptalTable, upstream, messages, lastFetch, editLog, creatorVars,
                   clock, botGuilds, guildsTable, sweeps>>

\* handleGuildUpdate(guildList, currentGuild) for the next guild of the READY event; the
\* insert fails on an id the table has (primary key)
ReadySync(ok) ==
    /\ Handling("READY", "sync")
    /\ subs["READY"].todo # <<>>
    /\ MayFail("READY", ok)
    /\ LET sub == subs["READY"]
           g   == Head(sub.todo)
       IN  IF g \in sub.snapshot
           THEN /\ subs' = [subs EXCEPT !["READY"] = [sub EXCEPT !.todo = Tail(sub.todo)]]
                /\ UNCHANGED guildsTable
           ELSE IF ok /\ g \notin guildsTable
           THEN /\ subs' = [subs EXCEPT !["READY"] =
                               [sub EXCEPT !.todo = Tail(sub.todo), !.log = Append(@, "insert guild")]]
                /\ guildsTable' = guildsTable \cup {g}
           ELSE /\ subs' = [subs EXCEPT !["READY"] =
                               HandlerFails([sub EXCEPT !.log = InsertFailure(g, sub.log)])]
                /\ UNCHANGED guildsTable
    /\ UNCHANGED <<last, tasks, ptalTable, upstream, messages, lastFetch, editLog, creatorVars,
                   clock, botGuilds, sweeps>>

\* `Effect.forkScoped(Effect.schedule(updatePTALs, delayByOneSecond))`, the end of the
\* handler (the handler of services/ready.ts ends without it)
ReadyFork ==
    /\ Handling("READY", "sync")
    /\ subs["READY"].todo = <<>>
    /\ FreeSweeps # {}
    /\ IF subs["READY"].impl = "ready.ts"
       THEN /\ subs' = [subs EXCEPT !["READY"] = Handled([@ EXCEPT !.synced = TRUE])]
            /\ UNCHANGED sweeps
       ELSE /\ LET s == CHOOSE x \in FreeSweeps : \A y \in FreeSweeps : x <= y
               IN  sweeps' = [sweeps EXCEPT ![s] =
                                [FreeSweep EXCEPT !.status = "waiting", !.wake = clock + SweepStartDelay]]
            /\ subs' = [subs EXCEPT !["READY"] =
                           Handled([@ EXCEPT !.synced = TRUE, !.log = Append(@, "fork sweep")])]
    /\ UNCHANGED <<last, tasks, ptalTable, upstream, messages, lastFetch, editLog, creatorVars,
                   clock, botGuilds, guildsTable>>

\* ---- GUILD_CREATE: the bot joins g, or Discord announces a guild it is in
GatewayGuildCreate(g) ==
    /\ subs["GUILD_CREATE"].state = "listening"
    /\ botGuilds' = botGuilds \cup {g}
    /\ subs' = [subs EXCEPT !["GUILD_CREATE"] =
                   [@ EXCEPT !.state = "handling", !.pc = "get", !.guild = g]]
    /\ UNCHANGED <<last, tasks, ptalTable, upstream, messages, lastFetch, editLog, creatorVars,
                   clock, guildsTable, sweeps>>

\* `select().from(guilds).where(eq(guilds.id, guild.id)).get()`
GuildCreateGet(ok) ==
    /\ Handling("GUILD_CREATE", "get")
    /\ MayFail("GUILD_CREATE", ok)
    /\ subs' = [subs EXCEPT !["GUILD_CREATE"] =
                   IF ~ok THEN HandlerFails(@)
                   ELSE IF @.guild \in guildsTable THEN Handled(@)
                   ELSE [@ EXCEPT !.pc = "insert"]]
    /\ UNCHANGED <<last, tasks, ptalTable, upstream, messages, lastFetch, editLog, creatorVars,
                   clock, botGuilds, guildsTable, sweeps>>

\* `insert(guilds).values({ id: guild.id })`
GuildCreateInsert(ok) ==
    /\ Handling("GUILD_CREATE", "insert")
    /\ MayFail("GUILD_CREATE", ok)
    /\ LET sub == subs["GUILD_CREATE"]
       IN  IF ok /\ sub.guild \notin guildsTable
           THEN /\ guildsTable' = guildsTable \cup {sub.guild}
                /\ subs' = [subs EXCEPT !["GUILD_CREATE"] = Handled(sub)]
           ELSE /\ subs' = [subs EXCEPT !["GUILD_CREATE"] =
                               HandlerFails([sub EXCEPT !.log = InsertFailure(sub.guild, sub.log)])]
                /\ UNCHANGED guildsTable
    /\ UNCHANGED <<last, tasks, ptalTable, upstream, messages, lastFetch, editLog, creatorVars,
                   clock, botGuilds, sweeps>>

\* ---- GUILD_DELETE: the bot leaves g
GatewayGuildDelete(g) ==
    /\ subs["GUILD_DELETE"].state = "listening"
    /\ g \in botGuilds
    /\ botGuilds' = botGuilds \ {g}
    /\ subs' = [subs EXCEPT !["GUILD_DELETE"] =
                   [@ EXCEPT !.state = "handling", !.pc = "get", !.guild = g]]
    /\ UNCHANGED <<last, tasks, ptalTable, upstream, messages, lastFetch, editLog, creatorVars,
                   clock, guildsTable, sweeps>>

\* the select of the GUILD_DELETE handler; `Effect.catchAllCause(Effect.logError)` is
\* inside handleDispatch, so a failure is logged and the handler returns
GuildDeleteGet(ok) ==
    /\ Handling("GUILD_DELETE", "get")
    /\ subs' = [subs EXCEPT !["GUILD_DELETE"] =
                   IF ~ok THEN Handled(@)
                   ELSE IF @.guild \notin guildsTable THEN Handled(@)
                   ELSE [@ EXCEPT !.pc = "delete"]]
    /\ UNCHANGED <<last, tasks, ptalTable, upstream, messages, lastFetch, editLog, creatorVars,
                   clock, botGuilds, guildsTable, sweeps>>

PtalAfterGuildDelete_Cascade(table, g) == SelectSeq(table, LAMBDA r : r.guildId # g)

\* the ptal table after a row of guilds is deleted: its guildId column is plain text,
\* no foreign key takes rows with the guild
PtalAfterGuildDelete(table, g) == table

\* `delete(guilds).where(eq(guilds.id, guild.id))`
GuildDeleteRun(ok) ==
    /\ Handling("GUILD_DELETE", "delete")
    /\ LET sub == subs["GUILD_DELETE"]
       IN  IF ok
           THEN /\ guildsTable' = guildsTable \ {sub.guild}
                /\ ptalTable' = PtalAfterGuildDelete(ptalTable, sub.guild)
                /\ subs' = [subs EXCEPT !["GUILD_DELETE"] = Handled(sub)]
           ELSE /\ subs' = [subs EXCEPT !["GUILD_DELETE"] = Handled(sub)]
                /\ UNCHANGED <<guildsTable, ptalTable>>
    /\ UNCHANGED <<last, tasks, upstream, messages, lastFetch, editLog, creatorVars,
                   clock, botGuilds, sweeps>>

\* ---- MESSAGE_CREATE: a message that mentions the bot
GatewayMessageCreate ==
    /\ subs["MESSAGE_CREATE"].state = "listening"
    /\ subs' = [subs EXCEPT !["MESSAGE_CREATE"] =
                   [@ EXCEPT !.state = "handling", !.pc = "reply"]]
    /\ UNCHANGED <<last, tasks, ptalTable, upstream, messages, lastFetch, editLog, creatorVars,
                   clock, botGuilds, guildsTable, sweeps>>

\* `yield* handleMessage(message)`
PingReply(ok) ==
    /\ Handling("MESSAGE_CREATE", "reply")
    /\ MayFail("MESSAGE_CREATE", ok)
    /\ subs' = [subs EXCEPT !["MESSAGE_CREATE"] = IF ok THEN Handled(@) ELSE HandlerFails(@)]
    /\ UNCHANGED <<last, tasks, ptalTable, upstream, messages, lastFetch, editLog, creatorVars,
                   clock, botGuilds, guildsTable, sweeps>>

\* ---- the sweep: updatePTALs
ListAllPtal_First(table) == IF table = <<>> THEN <<>> ELSE <<table[1]>>

\* `select().from(db.schema.ptalTable)`
ListAllPtal(table) == table

SweepCaught_ThenSummary(sw) ==
    [sw EXCEPT !.status = "done", !.pc = "end", !.wake = 0, !.readyAt = 0, !.idx = 0,
               !.errors = Append(@, sw.idx), !.summaries = @ + 1]

\* `Effect.catchAllCause(Effect.logError)`: the failure is logged, the sweep is over
SweepCaught(sw) ==
    [sw EXCEPT !.status = "failed", !.pc = "end", !.wake = 0, !.readyAt = 0, !.idx = 0,
               !.errors = Append(@, sw.idx)]

\* the Effect.tap after the forEach: the one line that reports completion
SweepSummary(sw) ==
    [sw EXCEPT !.status = "done", !.pc = "end", !.wake = 0, !.readyAt = 0, !.idx = 0,
               !.summaries = @ + 1]

\* the schedule's delay is over: the select on ptalTable
SweepSelect(s, ok) ==
    /\ sweeps[s].status = "waiting"
    /\ clock >= sweeps[s].wake
    /\ sweeps' = [sweeps EXCEPT ![s] =
                     IF ~ok THEN SweepCaught(@)
                     ELSE IF ListAllPtal(ptalTable) = <<>> THEN SweepSummary(@)
                     ELSE [@ EXCEPT !.status = "running", !.rows = ListAllPtal(ptalTable),
                                    !.idx = 1, !.pc = "channel", !.readyAt = clock, !.wake = 0]]
    /\ UNCHANGED <<last, tasks, ptalTable, upstream, messages, lastFetch, editLog, creatorVars,
                   clock, botGuilds, guildsTable, subs>>

\* handlePTALUpdate issues its next outbound call, once the effect's sleep is over
SweepIssue(s) ==
    /\ sweeps[s].status = "running"
    /\ sweeps[s].pc \in {"channel", "edit"}
    /\ LET sw  == sweeps[s]
           eff == IF sw.pc = "channel" THEN GetChannelEffect ELSE EditEmbedEffect
       IN  /\ clock >= sw.readyAt + eff.delay
           /\ sweeps' = [sweeps EXCEPT ![s] =
                            [sw EXCEPT !.pc = IF sw.pc = "channel" THEN "channel-wait" ELSE "edit-wait",
                                       !.calls = Append(@, [call |-> eff.call, row |-> sw.idx, at |-> clock])]]
    /\ UNCHANGED <<last, tasks, ptalTable, upstream, messages, lastFetch, editLog, creatorVars,
                   clock, botGuilds, guildsTable, subs>>

\* what rest.getChannel can answer.  For a channel that exists: the channel, or a
\* failure of the call.  For a channel that is gone: Discord answers 404, which the REST
\* client surfaces as a failure of the effect ("unknown channel"); "none" is the
\* successful empty answer `if (!channel) return;` provides for.
ChannelAnswers == {"channel", "error", "unknown channel", "none"}

\* Effect.forEach: on to the next record, or the summary
NextRecord(sw) ==
    IF sw.idx = Len(sw.rows) THEN SweepSummary(sw)
    ELSE [sw EXCEPT !.idx = sw.idx + 1, !.pc = "channel", !.readyAt = clock]

\* rest.getChannel answers
SweepChannelReturn(s, answer) ==
    /\ sweeps[s].status = "running" /\ sweeps[s].pc = "channel-wait"
    /\ sweeps' = [sweeps EXCEPT ![s] =
                     CASE answer = "channel" -> [@ EXCEPT !.pc = "edit", !.readyAt = clock]
                       [] answer = "none" -> NextRecord([@ EXCEPT !.gone = @ \cup {sweeps[s].idx}])
                       [] answer = "unknown channel" ->
                            SweepCaught([@ EXCEPT !.gone = @ \cup {sweeps[s].idx}])
                       [] OTHER -> SweepCaught(@)]
    /\ UNCHANGED <<last, tasks, ptalTable, upstream, messages, lastFetch, editLog, creatorVars,
                   clock, botGuilds, guildsTable, subs>>

\* editPTALEmbed(ptal) ends: the message shows the embed of the current PR/review state
SweepEditReturn(s, ok) ==
    /\ sweeps[s].status = "running" /\ sweeps[s].pc = "edit-wait"
    /\ LET sw    == sweeps[s]
           entry == sw.rows[sw.idx]
           embed == RenderEmbed(entry, upstream[KeyOf(entry)])
       IN  IF ok
           THEN /\ messages' = [messages EXCEPT ![MsgOf(entry)] = embed]
                /\ lastFetch' = [lastFetch EXCEPT ![MsgOf(entry)] = upstream[KeyOf(entry)]]
                /\ editLog' = Append(editLog, [task |-> 0, channel |-> entry.channel,
                                               message |-> entry.message, embed |-> embed])
                /\ sweeps' = [sweeps EXCEPT ![s] = NextRecord(sw)]
           ELSE /\ sweeps' = [sweeps EXCEPT ![s] = SweepCaught(sw)]
                /\ UNCHANGED <<messages, lastFetch, editLog>>
    /\ UNCHANGED <<last, tasks, ptalTable, upstream, creatorVars,
                   clock, botGuilds, guildsTable, subs>>

\* a timer that is due fires before time goes on
TimerDue ==
    \/ \E n \in SubNames : subs[n].state = "retrying" /\ clock >= subs[n].failedAt + RetryDelay
    \/ \E s \in SweepIds : sweeps[s].status = "waiting" /\ clock >= sweeps[s].wake

Tick ==
    /\ clock < MaxClock
    /\ ~TimerDue
    /\ clock' = clock + 1
    /\ UNCHANGED <<last, tasks, ptalTable, upstream, messages, lastFetch, editLog, creatorVars,
                   botGuilds, guildsTable, subs, sweeps>>

\* --------------------------------------------------------- specifications
InitWith(tables, ups) ==
    /\ last = NoReq
    /\ tasks = [t \in TaskIds |-> FreeTask]
    /\ ptalTable \in tables
    /\ upstream \in ups
    /\ messages = [m \in MessageIds |-> NoEmbed]
    /\ lastFetch = [m \in MessageIds |-> -1]
    /\ editLog = <<>>
    /\ crowdinEmbed = <<>>
    /\ runs = [r \in RunIds |-> FreeRun]
    /\ sent = <<>>
    /\ GatewayIdle

Init == InitWith(PtalTables, {[k \in PRKeys |-> 0]})

TaskStep ==
    \/ \E t \in TaskIds, dbok \in BOOLEAN : TaskStart(t, dbok)
    \/ \E t \in TaskIds, ok \in BOOLEAN : TaskFetch(t, ok)
    \/ \E t \in TaskIds, ok \in BOOLEAN : TaskEdit(t, ok)
    \/ \E t \in TaskIds : CloseScope(t)

\* deliveries GitHub makes: the compact body, signed with the shared secret
GitHubPayloads == {"prA-opened", "prA-submitted", "prB-opened"}

GitHubEvents == {"pull_request", "pull_request_review"}

Deliver ==
    \E p \in GitHubPayloads, ev \in GitHubEvents :
        GithubWebhookRoute(<<Lit(p)>>, Sign(<<Lit(p)>>, WebhookSecret), ev, FALSE)

Next ==
    \/ Deliver
    \/ TaskStep
    \/ \E k \in PRKeys : UpstreamChange(k)

Spec == Init /\ [][Next]_vars

\* One delivery, with any body and any headers, from its receipt to the end of its
\* processing.  What the sender signed is b0 under s; what arrives is that, or
\* that with one byte of the body or one character of the signature changed, or
\* with the signature header dropped.
HttpPayloads == {"prA-opened", "junk"}

HttpEvents == {NoEvent, "pull_request", "push", "star"}

OneByteChanges(b0, ps) ==
    {[b0 EXCEPT ![i] = tok] : i \in 1..Len(b0), tok \in Tokens(ps)} \ {b0}

Arrivals(b0, s, ps) ==
    {<<b0, Sign(b0, s)>>, <<b0, FlipSig(Sign(b0, s))>>, <<b0, NoSig>>}
        \cup {<<b, Sign(b0, s)>> : b \in OneByteChanges(b0, ps)}

HttpStore ==
    <<PtalRow("C1", "M1", "acme", "widgets", 42, "Crowdin Sync Request"),
      PtalRow("C3", "M3", "acme", "widgets", 7, "PTAL")>>

InitHttp == InitWith({HttpStore}, {[k \in PRKeys |-> 0]})

Receive ==
    /\ last = NoReq
    /\ \E b0 \in Bodies(HttpPayloads), s \in Secrets, ev \in HttpEvents, vthrow \in BOOLEAN :
         \E a \in Arrivals(b0, s, HttpPayloads) :
            \/ GithubWebhookRoute(a[1], a[2], ev, vthrow)
            \/ RouterPost(a[1], a[2], ev, vthrow)
            \/ githubWebhookRouteHandler(a[1], a[2], ev)

NextHttp ==
    \/ Receive
    \/ TaskStep

SpecHttp == InitHttp /\ [][NextHttp]_vars

\* Deliveries handled in succession: the next one arrives when no task runs, and
\* the PR/review state upstream, whatever it is, does not change.
InitSucc == InitWith(PtalTables, [PRKeys -> {0, MaxVersion}])

Quiet == \A t \in TaskIds : tasks[t].status # "running" /\ ~tasks[t].scopeOpen

DeliverSucc == Quiet /\ Deliver

NextSucc ==
    \/ DeliverSucc
    \/ TaskStep

SpecSucc == InitSucc /\ [][NextSucc]_vars

\* The store the Creator works against: some channel registrations, some rows.  The
\* bot is in guild G1 and not (or no longer) in G2.
InitCreator ==
    /\ last = NoReq
    /\ tasks = [t \in TaskIds |-> FreeTask]
    /\ ptalTable \in {<<>>, <<PtalRow("C3", "M3", "acme", "widgets", 7, "PTAL")>>}
    /\ upstream = [k \in PRKeys |-> 0]
    /\ messages = [m \in MessageIds |-> NoEmbed]
    /\ lastFetch = [m \in MessageIds |-> -1]
    /\ editLog = <<>>
    /\ crowdinEmbed \in RegistrationTables
    /\ runs = [r \in RunIds |-> FreeRun]
    /\ sent = <<>>
    /\ clock = 0
    /\ botGuilds = {"G1"}
    /\ guildsTable = {"G1"}
    /\ subs = [n \in SubNames |-> IdleSub]
    /\ sweeps = [s \in SweepIds |-> FreeSweep]

\* repository_dispatch deliveries to the webhook route, handled in succession
DispatchPayloads == {"dispatch-ptal", "dispatch-other"}

DeliverDispatch ==
    /\ Quiet
    /\ \E p \in DispatchPayloads :
          GithubWebhookRoute(<<Lit(p)>>, Sign(<<Lit(p)>>, WebhookSecret), "repository_dispatch", FALSE)

NextDispatch ==
    \/ DeliverDispatch
    \/ \E t \in TaskIds, dbok \in BOOLEAN : TaskStart(t, dbok)
    \/ \E t \in TaskIds : CloseScope(t)

SpecDispatch == InitCreator /\ [][NextDispatch]_vars

\* crowdin.create events on the event bus, handled by the listener
CreatorRepos == {"widgets", "gizmos"}

CreatorUrls == {PullUrl(42), UrlWithoutPull, NotAUrl, NoUrl}

PublishCreate == \E repo \in CreatorRepos, url \in CreatorUrls : Publish("acme", repo, url)

NextCreator ==
    \/ PublishCreate
    \/ CreatorStep

SpecCreator == InitCreator /\ [][NextCreator]_vars

\* The gateway side: the process starts against the store and the guild memberships
\* its previous lifetime left, and Discord delivers events.
InitGatewayWith(tables, memberships, stored) ==
    /\ last = NoReq
    /\ tasks = [t \in TaskIds |-> FreeTask]
    /\ ptalTable \in tables
    /\ upstream = [k \in PRKeys |-> 0]
    /\ messages = [m \in MessageIds |-> NoEmbed]
    /\ lastFetch = [m \in MessageIds |-> -1]
    /\ editLog = <<>>
    /\ crowdinEmbed = <<>>
    /\ runs = [r \in RunIds |-> FreeRun]
    /\ sent = <<>>
    /\ clock = 0
    /\ botGuilds \in memberships
    /\ guildsTable \in stored
    /\ subs = [n \in SubNames |-> IdleSub]
    /\ sweeps = [s \in SweepIds |-> FreeSweep]

\* the steps of the handlers
ReadyStep ==
    \/ \E dbok \in BOOLEAN : ReadyTest(dbok)
    \/ \E ok \in BOOLEAN : ReadySelect(ok)
    \/ \E ok \in BOOLEAN : ReadySync(ok)
    \/ ReadyFork

SweepStep ==
    \/ \E s \in SweepIds, ok \in BOOLEAN : SweepSelect(s, ok)
    \/ \E s \in SweepIds : SweepIssue(s)
    \/ \E s \in SweepIds, answer \in ChannelAnswers : SweepChannelReturn(s, answer)
    \/ \E s \in SweepIds, ok \in BOOLEAN : SweepEditReturn(s, ok)

GuildStep ==
    \/ \E ok \in BOOLEAN : GuildCreateGet(ok)
    \/ \E ok \in BOOLEAN : GuildCreateInsert(ok)
    \/ \E ok \in BOOLEAN : GuildDeleteGet(ok)
    \/ \E ok \in BOOLEAN : GuildDeleteRun(ok)

\* the catch-up sweep: READY deliveries and the sweeps they fork
InitSweep == InitGatewayWith(PtalTables, {{"G1"}}, {{"G1"}})

NextSweep ==
    \/ GatewayReady
    \/ ReadyStep
    \/ SweepStep
    \/ \E n \in SubNames : SubRestart(n)
    \/ Tick

SpecSweep == InitSweep /\ [][NextSweep]_vars

\* the subscriptions: Discord delivers its events one after the other, each to the
\* handler subscribed to it
InitGateway == InitGatewayWith({<<>>}, SUBSET Guilds, SUBSET Guilds)

GatewayQuiet == \A n \in SubNames : subs[n].state # "handling"

GatewayEvent ==
    /\ GatewayQuiet
    /\ \/ GatewayReady
       \/ \E g \in Guilds : GatewayGuildCreate(g)
       \/ \E g \in Guilds : GatewayGuildDelete(g)
       \/ GatewayMessageCreate

NextGateway ==
    \/ GatewayEvent
    \/ ReadyStep
    \/ GuildStep
    \/ \E ok \in BOOLEAN : PingReply(ok)
    \/ \E s \in SweepIds, ok \in BOOLEAN : SweepSelect(s, ok)
    \/ \E n \in SubNames : SubRestart(n)
    \/ Tick

SpecGateway == InitGateway /\ [][NextGateway]_vars

\* READY and GUILD_CREATE side by side: the two subscriptions are forked fibers, and
\* Discord follows READY with a GUILD_CREATE for each guild of the bot
NextGuilds ==
    \/ GatewayReady
    \/ \E g \in Guilds : GatewayGuildCreate(g)
    \/ ReadyStep
    \/ \E ok \in BOOLEAN : GuildCreateGet(ok)
    \/ \E ok \in BOOLEAN : GuildCreateInsert(ok)
    \/ \E s \in SweepIds, ok \in BOOLEAN : SweepSelect(s, ok)
    \/ \E n \in SubNames : SubRestart(n)
    \/ Tick

SpecGuilds == InitGateway /\ [][NextGuilds]_vars

\* READY against a database that may be down, for each of the READY handlers
InitReady ==
    /\ last = NoReq
    /\ tasks = [t \in TaskIds |-> FreeTask]
    /\ ptalTable \in PtalTables
    /\ upstream = [k \in PRKeys |-> 0]
    /\ messages = [m \in MessageIds |-> NoEmbed]
    /\ lastFetch = [m \in MessageIds |-> -1]
    /\ editLog = <<>>
    /\ crowdinEmbed = <<>>
    /\ runs = [r \in RunIds |-> FreeRun]
    /\ sent = <<>>
    /\ clock = 0
    /\ botGuilds = {"G1"}
    /\ guildsTable \in {{}, {"G1"}}
    /\ \E impl \in ReadyImpls :
          subs = [n \in SubNames |-> IF n = "READY" THEN [IdleSub EXCEPT !.impl = impl] ELSE IdleSub]
    /\ sweeps = [s \in SweepIds |-> FreeSweep]

NextReady ==
    \/ GatewayReady
    \/ ReadyStep
    \/ \E s \in SweepIds, ok \in BOOLEAN : SweepSelect(s, ok)
    \/ \E n \in SubNames : SubRestart(n)
    \/ Tick

SpecReady == InitReady /\ [][NextReady]_vars

\* The whole pipeline against one store: a sync event, a pull-request webhook, a READY
\* with its sweep, and the bot leaving and joining the guild of the registration, in any
\* order, each arriving when the one before is dealt with.
InitStore ==
    /\ last = NoReq
    /\ tasks = [t \in TaskIds |-> FreeTask]
    /\ ptalTable \in {<<>>, <<PtalRow("C3", "M3", "acme", "widgets", 7, "PTAL")>>}
    /\ upstream = [k \in PRKeys |-> 0]
    /\ messages = [m \in MessageIds |-> NoEmbed]
    /\ lastFetch = [m \in MessageIds |-> -1]
    /\ editLog = <<>>
    /\ crowdinEmbed = <<Registration("acme", "widgets", "C1", "G1")>>
    /\ runs = [r \in RunIds |-> FreeRun]
    /\ sent = <<>>
    /\ clock = 0
    /\ botGuilds = {"G1"}
    /\ guildsTable = {"G1"}
    /\ subs = [n \in SubNames |-> IdleSub]
    /\ sweeps = [s \in SweepIds |-> FreeSweep]

StoreQuiet ==
    /\ Quiet
    /\ GatewayQuiet
    /\ \A r \in RunIds : runs[r].status # "running"
    /\ \A s \in SweepIds : sweeps[s].status \notin {"waiting", "running"}

StoreEvent ==
    /\ StoreQuiet
    /\ \/ FreeRuns = RunIds /\ Publish("acme", "widgets", PullUrl(42))
       \/ /\ FreeTasks = TaskIds
          /\ GithubWebhookRoute(<<Lit("prA-opened")>>, Sign(<<Lit("prA-opened")>>, WebhookSecret),
                                "pull_request", FALSE)
       \/ FreeSweeps = SweepIds /\ GatewayReady
       \/ GatewayGuildCreate("G1")
       \/ GatewayGuildDelete("G1")

NextStore ==
    \/ StoreEvent
    \/ CreatorStep
    \/ TaskStep
    \/ ReadyStep
    \/ GuildStep
    \/ SweepStep
    \/ \E n \in SubNames : SubRestart(n)
    \/ Tick

SpecStore == InitStore /\ [][NextStore]_vars

\* ================================================================ claims
Range(q) == {q[i] : i \in 1..Len(q)}

Answered == last.route # ""

\* the signature header is the digest of the bytes that arrived, under WEBHOOK_SECRET
RawSigned == last.sig = Sign(last.body, WebhookSecret)

OneByteApart(a, b) ==
    /\ Len(a) = Len(b)
    /\ Cardinality({i \in 1..Len(a) : a[i] # b[i]}) = 1

NoProcessing ==
    /\ last.task = 0
    /\ "process" \notin Range(last.steps)
    /\ \A t \in TaskIds : tasks[t].status = "free"
    /\ editLog = <<>>

\* C1: a request to GithubWebhookRoute with an event name, a JSON body in any byte
\* layout and the signature of exactly those bytes is answered 202 (the verifier
\* itself not failing).
C1_SignatureAccepted ==
    (/\ last.route = "GithubWebhookRoute"
     /\ last.event # NoEvent
     /\ JsonParse(last.body).ok
     /\ RawSigned
     /\ "verify-throws" \notin Range(last.steps))
        => last.status = 202

\* C2: when the signature was computed over b0 and one byte of the body was changed
\* on the way (the body still being JSON), or one character of the signature was,
\* GithubWebhookRoute answers 401 and processes nothing.
C2_TamperRejected ==
    (/\ last.route = "GithubWebhookRoute"
     /\ last.event # NoEvent
     /\ JsonParse(last.body).ok
     /\ "verify-throws" \notin Range(last.steps)
     /\ \/ last.sig[1] = "sha256" /\ last.sig[3] = WebhookSecret
           /\ OneByteApart(last.sig[2], last.body)
        \/ last.sig = FlipSig(Sign(last.body, WebhookSecret)))
        => last.status = 401 /\ NoProcessing

\* C3: GithubWebhookRoute never parses the body of a request whose signature is
\* absent or is not the digest of the bytes that arrived.
C3_NoParseBeforeVerify ==
    (last.route = "GithubWebhookRoute" /\ ~RawSigned) => "json" \notin Range(last.steps)

\* C4: every answer of GithubWebhookRoute is 400, 401 or 202, whatever fails.
C4_StatusCodes == last.route = "GithubWebhookRoute" => last.status \in {400, 401, 202}

\* C5 as stated: on the webhook endpoint, whichever route implements it, a request
\* without the signature header or without the event-name header is answered 400
\* and starts no processing (here already for the bodies that are JSON).
C5_MissingHeader400 ==
    (Answered /\ JsonParse(last.body).ok /\ (last.sig = NoSig \/ last.event = NoEvent))
        => last.status = 400 /\ NoProcessing

\* C5 as amended: on the two routes of services/http.ts a request without the
\* signature header or without the event-name header is answered 400 and starts no
\* processing, whatever its body.
C5_MissingHeader400_HttpTs ==
    (/\ last.route \in {"GithubWebhookRoute", "RouterPost"}
     /\ (last.sig = NoSig \/ last.event = NoEvent))
        => last.status = 400 /\ NoProcessing

C5_Witness ==
    /\ last.route = "GithubWebhookRoute"
    /\ last.sig = NoSig
    /\ ~JsonParse(last.body).ok
    /\ last.status = 400

\* C6: a request to GithubWebhookRoute with an event name and a JSON body whose
\* signature header is present but is not the digest of the bytes that arrived is
\* answered 401, and nothing is read, called or edited on its behalf.
C6_MismatchRejected ==
    (/\ last.route = "GithubWebhookRoute"
     /\ last.event # NoEvent
     /\ last.sig # NoSig
     /\ ~RawSigned
     /\ JsonParse(last.body).ok
     /\ "verify-throws" \notin Range(last.steps))
        => last.status = 401 /\ NoProcessing

\* C7: the task forked for an accepted webhook is never interrupted: neither the
\* response nor the closing of the request's scope ends it before it has finished.
C7_TaskNeverInterrupted == \A t \in TaskIds : tasks[t].status # "interrupted"

\* the edit calls a task issued, in order, as (channel, message, embed)
EditsOf(t) ==
    LET mine == SelectSeq(editLog, LAMBDA e : e.task = t)
    IN  [i \in 1..Len(mine) |-> <<mine[i].channel, mine[i].message, mine[i].embed>>]

Targets(q) == [i \in 1..Len(q) |-> <<q[i][1], q[i][2]>>]

\* the rows of the table whose (owner, repository, pr) is the event's, as targets
RowsFor(p) ==
    LET rows == SelectSeq(ptalTable, LAMBDA r : KeyOf(r) = <<p.owner, p.repo, p.number>>)
    IN  [i \in 1..Len(rows) |-> MsgOf(rows[i])]

IsPrefix(a, b) == Len(a) <= Len(b) /\ \A i \in 1..Len(a) : a[i] = b[i]

C9_LastFetchWins ==
    (\A t \in TaskIds : tasks[t].status \in {"free", "done"})
        => \A m \in MessageIds :
               (\E i \in 1..Len(editLog) : <<editLog[i].channel, editLog[i].message>> = m)
                   => messages[m].state = lastFetch[m]

SameKey(p, q) ==
    /\ PayloadOf(p).owner = PayloadOf(q).owner
    /\ PayloadOf(p).repo = PayloadOf(q).repo
    /\ PayloadOf(p).number = PayloadOf(q).number

C11_FailureIsolation ==
    \A t \in TaskIds :
        tasks[t].errors # <<>> =>
            /\ tasks[t].status # "failed"
            /\ tasks[t].pc = "end" /\ tasks[t].status = "done" =>
                  \A i \in 1..Len(tasks[t].data) :
                      \/ i \in Range(tasks[t].errors)
                      \/ \E j \in 1..Len(EditsOf(t)) :
                            <<EditsOf(t)[j][1], EditsOf(t)[j][2]>> = MsgOf(tasks[t].data[i])

\* the messages a listener run created, in order
SentBy(r) == SelectSeq(sent, LAMBDA m : m.run = r)

\* the registrations of the repository a listener run, or a webhook task, is about
RegsOfRun(r) == RegistrationsFor(crowdinEmbed, runs[r].owner, runs[r].repo)

RegsOfTask(t) ==
    RegistrationsFor(crowdinEmbed, PayloadOf(tasks[t].payload).owner, PayloadOf(tasks[t].payload).repo)

\* a task of the webhook route that handled a repository_dispatch with the sync action
SyncDispatchTask(t) ==
    /\ tasks[t].handler = "handleGitHubWebhookEvent"
    /\ PayloadOf(tasks[t].payload).kind = "dispatch"
    /\ PayloadOf(tasks[t].payload).action = "crowdin-ptal"

\* the rows of the table that point at a message created by a listener run
RowsOfRun(r) ==
    SelectSeq(ptalTable, LAMBDA row : \E i \in 1..Len(SentBy(r)) : SentBy(r)[i].id = row.message)

\* the event names handleGitHubWebhookEvent has a case for
HandledEvents == {"push", "repository_dispatch"} \cup PREvents

\* C21: a request to GithubWebhookRoute that carries the signature of its bytes (a JSON
\* body) and an event name without a case of its own is answered 202; its task logs
\* the name and completes (it never fails, dies or is cut short), and nothing is
\* edited, sent or stored on its behalf.
C21_UnknownEventDropped ==
    (/\ last.route = "GithubWebhookRoute"
     /\ last.event \notin HandledEvents \cup {NoEvent}
     /\ JsonParse(last.body).ok
     /\ RawSigned
     /\ "verify-throws" \notin Range(last.steps))
        => /\ last.status = 202
           /\ last.task # 0
           /\ tasks[last.task].status \in {"running", "done"}
           /\ tasks[last.task].status = "done" => tasks[last.task].log = <<"unhandled">>
           /\ editLog = <<>> /\ sent = <<>>
           /\ ptalTable = HttpStore

\* C22: no step of the pipeline (webhook tasks, the Creator, READY and its sweep, the
\* guild handlers) removes or changes a row of the ptal table: rows are only added,
\* after the ones there.
C22_PtalKept == [][IsPrefix(ptalTable, ptalTable')]_vars

C22_Witness ==
    /\ \E i \in 1..Len(ptalTable) : ptalTable[i].message = "N1" /\ ptalTable[i].guildId = "G1"
    /\ \E i \in 1..Len(editLog) : editLog[i].message = "N1" /\ editLog[i].task # 0
    /\ \E s \in SweepIds : sweeps[s].status = "done" /\ Len(sweeps[s].calls) >= 2
    /\ "G1" \notin guildsTable /\ "G1" \notin botGuilds

\* C23: every edit a Reconciler run issues carries the embed of the stored row and of
\* the upstream PR/review state, nothing of the webhook's payload; so two completed
\* runs for one pull request whose payloads differ (action, review state), against the
\* same store and upstream state, issued the same set of edit calls.
C23_PayloadIndependence ==
    /\ \A i \in 1..Len(editLog) :
          editLog[i].task # 0 =>
              \E j \in 1..Len(ptalTable) :
                  /\ MsgOf(ptalTable[j]) = <<editLog[i].channel, editLog[i].message>>
                  /\ editLog[i].embed = [description |-> ptalTable[j].description,
                                         state |-> upstream[KeyOf(ptalTable[j])]]
    /\ \A t1, t2 \in TaskIds :
          (/\ tasks[t1].status = "done" /\ tasks[t2].status = "done"
           /\ tasks[t1].payload # tasks[t2].payload
           /\ SameKey(tasks[t1].payload, tasks[t2].payload))
              => Range(EditsOf(t1)) = Range(EditsOf(t2))

C23_Witness ==
    \E t1, t2 \in TaskIds :
        /\ tasks[t1].status = "done" /\ tasks[t1].payload = "prA-opened"
        /\ tasks[t2].status = "done" /\ tasks[t2].payload = "prA-submitted"
        /\ EditsOf(t1) # <<>> /\ EditsOf(t2) # <<>>
        /\ upstream[<<"acme", "widgets", 42>>] = 0

\* C24: a sync event whose pull_request_url is absent, is no URL, or is a URL without
\* '/pull/<number>' is dropped by the listener: the handler does not die, asks GitHub
\* for no pull request, creates no message and inserts no row.
C24_MalformedReference ==
    \A r \in RunIds :
        (/\ runs[r].status # "free" /\ runs[r].pc # "start"
         /\ runs[r].url \in {NoUrl, NotAUrl, UrlWithoutPull}) =>
            /\ runs[r].status # "died"
            /\ "pulls.get" \notin Range(runs[r].log)
            /\ SentBy(r) = <<>>
            /\ RowsOfRun(r) = <<>>

\* C25: the Creator creates no message in the channel of a registration whose guild the
\* bot is not in, and inserts no row for it.
C25_GuildMembership ==
    /\ \A i \in 1..Len(sent) :
          \A j \in 1..Len(crowdinEmbed) :
              crowdinEmbed[j].channelId = sent[i].channel => crowdinEmbed[j].guildId \in botGuilds
    /\ \A i \in 1..Len(ptalTable) :
          ptalTable[i].description = "Crowdin Sync Request" => ptalTable[i].guildId \in botGuilds

\* C26: neither the READY guild sync nor the GUILD_CREATE handler ever attempts an
\* insert of an id the guilds table already holds, however their steps interleave: no
\* insert is refused for a duplicate key.
C26_NoDuplicateInsert ==
    \A n \in {"READY", "GUILD_CREATE"} : "duplicate key" \notin Range(subs[n].log)

\* C27: when the channel of a stored record is gone, the sweep issues no edit for that
\* record and goes on: once the sweep has ended, every record after it has had its
\* channel fetch.
C27_MissingChannel ==
    \A s \in SweepIds :
        \A i \in sweeps[s].gone :
            /\ \A k \in 1..Len(sweeps[s].calls) :
                  ~(sweeps[s].calls[k].call = "editPTALEmbed" /\ sweeps[s].calls[k].row = i)
            /\ sweeps[s].pc = "end" =>
                  \A j \in (i + 1)..Len(sweeps[s].rows) :
                      \E k \in 1..Len(sweeps[s].calls) :
                          sweeps[s].calls[k].call = "getChannel" /\ sweeps[s].calls[k].row = j

\* the rows the Creator inserted
CreatorRows == SelectSeq(ptalTable, LAMBDA row : row.description = "Crowdin Sync Request")

\* C28: every row the Creator inserted points at a message the Creator created before,
\* by the id Discord returned for it and the channel it was sent to; there are never
\* more such rows than created messages, and no two rows for one message.
C28_RecordFollowsMessage ==
    /\ \A i \in 1..Len(CreatorRows) :
          \E k \in 1..Len(sent) :
              sent[k].id = CreatorRows[i].message /\ sent[k].channel = CreatorRows[i].channel
    /\ \A i, j \in 1..Len(CreatorRows) : i # j => CreatorRows[i].message # CreatorRows[j].message
    /\ Len(CreatorRows) <= Len(sent)

C28_Witness ==
    /\ Len(sent) = 2 /\ sent[1].channel # sent[2].channel
    /\ Len(CreatorRows) = 2
    /\ CreatorRows[2].message = sent[2].id /\ CreatorRows[2].channel = sent[2].channel

\* C30: when the connectivity test of the READY handler fails, the handler logs it and
\* is done: it reads and inserts nothing in the guilds table, forks no sweep, and does
\* not fail (no retry).
C30_DatabaseDown ==
    "not connected" \in Range(subs["READY"].log) =>
        /\ subs["READY"].log = <<"not connected">>
        /\ subs["READY"].state = "listening"
        /\ subs["READY"].pc = "none"

C12_FanOut ==
    /\ \A r \in RunIds :
         (runs[r].status = "done" /\ runs[r].errors = <<>> /\ runs[r].pull # NaN) =>
             /\ Len(SentBy(r)) = Len(RegsOfRun(r))
             /\ Len(RowsOfRun(r)) = Len(RegsOfRun(r))
             /\ \A i \in 1..Len(RegsOfRun(r)) :
                  /\ SentBy(r)[i].channel = RegsOfRun(r)[i].channelId
                  /\ RowsOfRun(r)[i] = CreatedRow(runs[r], RegsOfRun(r)[i], SentBy(r)[i].id)
    /\ \A t \in TaskIds :
         (SyncDispatchTask(t) /\ tasks[t].status = "done") => Len(RegsOfTask(t)) = 0

\* C13: when creating the message or inserting the row fails for one registration of
\* a sync event, every other registration still gets its message and its row,
\* wherever the failing registration is in the list.
C13_CreatorIsolation ==
    \A r \in RunIds :
        (runs[r].status = "done" /\ Len(runs[r].errors) = 1 /\ runs[r].errors[1] >= 1) =>
            \A i \in 1..Len(RegsOfRun(r)) :
                i # runs[r].errors[1] =>
                    \E j \in 1..Len(SentBy(r)) :
                        /\ SentBy(r)[j].channel = RegsOfRun(r)[i].channelId
                        /\ CreatedRow(runs[r], RegsOfRun(r)[i], SentBy(r)[j].id) \in Range(ptalTable)

\* C14: a repository_dispatch handled by the webhook task reaches the Creator's lookup
\* of registrations exactly when its action is 'crowdin-ptal'; with another action
\* (or none) it queries nothing and calls nothing.
C14_Trigger ==
    \A t \in TaskIds :
        (/\ tasks[t].handler = "handleGitHubWebhookEvent"
         /\ PayloadOf(tasks[t].payload).kind = "dispatch"
         /\ tasks[t].pc # "start" /\ tasks[t].status # "interrupted") =>
            /\ PayloadOf(tasks[t].payload).action = "crowdin-ptal"
                 <=> "select crowdinEmbed" \in Range(tasks[t].log)
            /\ PayloadOf(tasks[t].payload).action # "crowdin-ptal"
                 => tasks[t].log = <<>> /\ sent = <<>> /\ editLog = <<>>

\* C15: a sync event for a repository without a registration ends with a warning
\* logged, no message created, no row inserted, and without failing.
C15_Unregistered ==
    /\ \A t \in TaskIds :
         (SyncDispatchTask(t) /\ tasks[t].pc = "end" /\ tasks[t].status # "interrupted"
            /\ Len(RegsOfTask(t)) = 0) =>
             /\ tasks[t].status = "done"
             /\ "warn" \in Range(tasks[t].log)
             /\ sent = <<>>
    /\ \A r \in RunIds :
         (runs[r].pc = "end" /\ runs[r].pull # NaN /\ Len(RegsOfRun(r)) = 0) =>
             /\ runs[r].status = "done"
             /\ "warn" \in Range(runs[r].log)
             /\ SentBy(r) = <<>> /\ RowsOfRun(r) = <<>>

\* C16: between any two consecutive outbound calls of a sweep (channel fetch, message
\* edit) the configured delay of 2 seconds elapses.
C16_SweepPacing ==
    \A s \in SweepIds :
        \A i \in 1..(Len(sweeps[s].calls) - 1) :
            sweeps[s].calls[i + 1].at - sweeps[s].calls[i].at >= SleepSeconds

\* C17: at no time are two edit calls of the catch-up sweep in flight, READY being
\* delivered once or several times.
C17_SweepMutex == Cardinality({s \in SweepIds : sweeps[s].pc = "edit-wait"}) <= 1

\* the outbound calls of a sweep, without their times
CallsOf(s) == [k \in 1..Len(sweeps[s].calls) |-> <<sweeps[s].calls[k].call, sweeps[s].calls[k].row>>]

\* channel fetch and edit for row 1, then for row 2, and so on to row n
CallsInOrder(n) ==
    [k \in 1..(2 * n) |-> <<IF k % 2 = 1 THEN "getChannel" ELSE "editPTALEmbed", (k + 1) \div 2>>]

\* the same, without the edits of the rows whose channel a sweep found gone
CallsDue(s) ==
    SelectSeq(CallsInOrder(Len(ptalTable)),
              LAMBDA c : ~(c[1] = "editPTALEmbed" /\ c[2] \in sweeps[s].gone))

C20_GuildMirror ==
    (/\ subs["READY"].synced
     /\ \A n \in SubNames : subs[n].state = "listening")
        => guildsTable = botGuilds

====
